---- MODULE Spec2Model ----
(***************************************************************************)
(* Startup and coordination logic of the csi-provisioner sidecar           *)
(* (cmd/csi-provisioner/csi-provisioner.go, func main).                    *)
(*                                                                         *)
(* Every deployed instance of the program is one entry of proc: a record   *)
(* holding the local variables of main() and the position (pc) the         *)
(* instance has reached.  The command line flags are the package level     *)
(* variables of the program; all instances of one deployment share them.   *)
(* The leader election lock is the only state shared between instances.    *)
(***************************************************************************)
EXTENDS Integers, Sequences, FiniteSets, TLC

\* ------------------------------------------------------------------ bounds
NumInstances == 2          \* redundant instances racing on one lock
MaxLevel == 1              \* largest --capacity-ownerref-level explored
MaxInterval == 4           \* largest retry interval explored, in seconds
MaxFailures == 4           \* failures in a row of one work item explored

Instances == 1..NumInstances
NoLeader == 0

\* --------------------------------------------------------- value domains
DriverNames == {"hostpath.csi.k8s.io", "pd.csi.storage.gke.io"}
MigratedDrivers == {"pd.csi.storage.gke.io"}
TopologyCap == "VOLUME_ACCESSIBILITY_CONSTRAINTS"
PublishCap == "PUBLISH_UNPUBLISH_VOLUME"
CloneCap == "CLONE_VOLUME"
PluginCapabilitySets == SUBSET {TopologyCap}
ControllerCapabilitySets == SUBSET {PublishCap, CloneCap}
SegmentKeys == {"zone", "rack"}
\* A Go pointer: Nil, or Some(v) pointing at the value v.
Nil == <<>>
Some(v) == <<v>>
Val(ptr) == ptr[1]
\* AccessibleTopology of the backend's node info: nil, or a map key -> value
SegmentMaps ==
    {Nil} \cup {Some(m) : m \in UNION {[K -> {"x"}] : K \in {{}, {"zone"}, SegmentKeys}}}
\* The nodes of the cluster and the topology segment their labels give.
NodeNames == {"node-1", "node-2"}
NodeLabels ==
    [n \in NodeNames |-> IF n = "node-1" THEN <<[Key |-> "zone", Value |-> "x"]>> ELSE <<>>]
\* Each variable of the environment is unset ("") or set.
Environments == [NODE_NAME : {"", "node-1"}, NAMESPACE : {"", "kube-system"},
                 POD_NAME : {"", "csi-provisioner-0"}]
\* The calls of main() that return an error.
Calls == {"KubeSetup", "Connect", "Probe", "GetDriverName", "GetInTreeNameFromCSIName",
          "ConnectMigrated", "ProbeMigrated", "GetDriverCapabilities", "GetNodeInfo",
          "Lookup", "NewForConfig", "Run", "ListenAndServe"}
\* Every answer the collaborators can give.
FullWorld ==
    [faults |-> Calls,                           \* the calls that can fail
     driverNames |-> DriverNames,
     pluginCapabilities |-> PluginCapabilitySets,
     controllerCapabilities |-> ControllerCapabilitySets,
     segments |-> SegmentMaps,
     ownerChain |-> 0..MaxLevel]                 \* controller references above the pod
Levels == (0 - 1)..MaxLevel
\* Keys of the work items the controllers put on their queues.
Keys == {"k1", "k2"}

VARIABLES
    enableLeaderElection,   \* --leader-election
    enableCapacity,         \* --enable-capacity
    enableNodeDeployment,   \* --node-deployment
    capacityOwnerrefLevel,  \* --capacity-ownerref-level
    metricsAddress,         \* --metrics-address ("" = unset)
    httpEndpoint,           \* --http-endpoint ("" = unset)
    retryIntervalStart,     \* --retry-interval-start, in seconds
    retryIntervalMax,       \* --retry-interval-max, in seconds
    environ,                \* the process environment: NODE_NAME, NAMESPACE, POD_NAME
    replicas,               \* the instances that are deployed
    world,                  \* what the backend, the cluster and the environment may answer
    proc,                   \* per instance: the locals of main() and its position
    lease                   \* holder of the leader election lock, NoLeader if free

flags == <<enableLeaderElection, enableCapacity, enableNodeDeployment,
           capacityOwnerrefLevel, metricsAddress, httpEndpoint, retryIntervalStart,
           retryIntervalMax, environ, replicas, world>>
vars == <<enableLeaderElection, enableCapacity, enableNodeDeployment,
          capacityOwnerrefLevel, metricsAddress, httpEndpoint, retryIntervalStart,
          retryIntervalMax, environ, replicas, world, proc, lease>>

\* ------------------------------------------------------------- helpers
\* Permutations of a finite set as sequences: the orders in which a Go
\* `for key := range map` may visit the keys.
Orders(S) == {s \in [1..Cardinality(S) -> S] : \A a \in S : \E n \in DOMAIN s : s[n] = a}

\* The locals of main() before its first statement.
InitProc ==
    [pc |-> "checkNode",
     exitCode |-> 0 - 1,               \* -1 while the process is alive
     fatal |-> "",                     \* what ended the process
     lifecycle |-> <<"Bootstrapping">>,
     node |-> "",                      \* os.Getenv("NODE_NAME")
     addr |-> "",
     rpcLog |-> <<>>,                  \* calls made on backend connections, in order
     conns |-> <<>>,                   \* connections ever opened
     grpcClient |-> 0,                 \* index into conns, 0 = nil
     provisionerName |-> "",
     supportsMigrationFromInTreePluginName |-> "",
     metricsMigrated |-> FALSE,
     pluginCapabilities |-> {},
     controllerCapabilities |-> {},
     capsKnown |-> FALSE,
     factory |-> {},                   \* informers requested from the shared factory
     stoppedFactory |-> {},            \* informers of the factory that is never started
     factoryForNamespace |-> {},       \* informers of the namespace-scoped factory
     vaLister |-> "nil",
     nodeLister |-> "nil",
     csiNodeLister |-> "nil",
     nodeDeployment |-> Nil,           \* *ctrl.NodeDeployment
     csiNode |-> Nil,                  \* the synthetic CSINode object
     fakeNode |-> Nil,                 \* the synthetic Node object
     csiProvisioner |-> 0,             \* connection handed to NewCSIProvisioner
     limiters |-> <<>>,                \* rate limiters created, in order
     rateLimiter |-> 0,                \* index into limiters, 0 = not created yet
     limiterOf |-> <<>>,               \* user of a rate limiter -> index into limiters
     last |-> Nil,                     \* last operation on a rate limiter
     queues |-> {},                    \* work queues built on rateLimiter
     additionalProvisionerNames |-> {},
     namespace |-> "",                 \* os.Getenv("NAMESPACE")
     podName |-> "",                   \* os.Getenv("POD_NAME")
     lookups |-> 0,                    \* calls of owner.Lookup
     controller |-> Nil,               \* *metav1.OwnerReference
     topologyInformer |-> "nil",       \* "nil", "live" or "fixed"
     segment |-> <<>>,                 \* the fixed topology.Segment
     topologyWorker |-> "none",        \* context of the RunWorker goroutine
     capacityController |-> Nil,
     provisionController |-> "nil",
     csiClaimController |-> "nil",
     handlers |-> {},                  \* paths registered on mux
     httpServer |-> "off",             \* "off", "starting", "serving"
     ctx |-> "none",                   \* context handed to run: "TODO" or "leader"
     cancelled |-> FALSE,              \* ctx.Done() is closed
     started |-> {},                   \* informers started by factory.Start
     startedForNamespace |-> {},       \* informers started by factoryForNamespace.Start
     synced |-> {},                    \* started informers that completed the initial sync
     cacheSyncResult |-> Nil,          \* result of factory.WaitForCacheSync
     runInvoked |-> {},                \* controllers whose Run has been called
     threadiness |-> "",               \* flag given to controller.Threadiness
     workers |-> <<>>,                 \* running controller -> flag that sets its workers
     listed |-> Nil]                   \* last answer of the topology informer

\* klog.Fatal / os.Exit: the process ends with the given status; its informers,
\* the sync result and its HTTP server end with it.
Die(p, code, why) ==
    [p EXCEPT !.pc = "exited", !.exitCode = code, !.fatal = why,
              !.lifecycle = Append(@, "ShuttingDown"),
              !.started = {}, !.startedForNamespace = {}, !.synced = {},
              !.cacheSyncResult = Nil, !.httpServer = "off"]

Alive(i) == i \in replicas /\ proc[i].exitCode = 0 - 1
At(i, where) == Alive(i) /\ proc[i].pc = where

\* An instance that exits gives up the lock it holds.
Step(i, q) ==
    /\ proc' = [proc EXCEPT ![i] = q]
    /\ lease' = IF q.pc = "exited" /\ lease = i THEN NoLeader ELSE lease
    /\ UNCHANGED flags

Getenv(name) == environ[name]

\* A call succeeds (TRUE) or returns an error (FALSE).
Outcomes(call) == IF call \in world.faults THEN BOOLEAN ELSE {TRUE}

Call(p, op) == Append(p.rpcLog, [op |-> op, conn |-> p.grpcClient])

\* ------------------------------------------------------------ bootstrap
\* NODE_NAME must be set in node-deployment mode.
CheckNodeName(i) ==
    /\ At(i, "checkNode")
    /\ LET p == [proc[i] EXCEPT !.node = Getenv("NODE_NAME")] IN
       Step(i, IF enableNodeDeployment /\ p.node = ""
               THEN Die(p, 255, "NODE_NAME")
               ELSE [p EXCEPT !.pc = "checkEndpoints"])

\* Variant of CheckEndpoints: both flags are accepted, --metrics-address wins.
CheckEndpointsLenient(i) ==
    /\ At(i, "checkEndpoints")
    /\ Step(i, [proc[i] EXCEPT !.pc = "kubeSetup",
                               !.addr = IF metricsAddress = "" THEN httpEndpoint
                                        ELSE metricsAddress])

\* Only one of --metrics-address and --http-endpoint; addr is the one set.
CheckEndpoints(i) ==
    /\ At(i, "checkEndpoints")
    /\ LET p == proc[i] IN
       Step(i, IF metricsAddress # "" /\ httpEndpoint # ""
               THEN Die(p, 1, "endpoints")
               ELSE [p EXCEPT !.pc = "kubeSetup",
                              !.addr = IF metricsAddress = "" THEN httpEndpoint
                                       ELSE metricsAddress])

\* kube config, clientset, snapshot clientset, server version.
KubeSetup(i) ==
    /\ At(i, "kubeSetup")
    /\ \E ok \in Outcomes("KubeSetup") :
          Step(i, IF ok THEN [proc[i] EXCEPT !.pc = "connect"] ELSE Die(proc[i], 255, "KubeSetup"))

\* ctrl.Connect(*csiEndpoint, metricsManager)
Connect(i) ==
    /\ At(i, "connect")
    /\ \E ok \in Outcomes("Connect") :
          LET p == [proc[i] EXCEPT !.rpcLog = Append(@, [op |-> "Connect", conn |-> 1])] IN
          Step(i, IF ok
                  THEN [p EXCEPT !.pc = "probe",
                                 !.conns = <<[open |-> TRUE, migrated |-> FALSE]>>,
                                 !.grpcClient = 1]
                  ELSE Die(p, 1, "Connect"))

\* Variant of Probe: a failed probe is tried again instead of ending the process.
ProbeRetries(i) ==
    /\ At(i, "probe")
    /\ \E ok \in Outcomes("Probe") :
          LET p == [proc[i] EXCEPT !.rpcLog = Call(proc[i], "Probe")] IN
          Step(i, IF ok THEN [p EXCEPT !.pc = "getDriverName"] ELSE p)

\* ctrl.Probe(grpcClient, *operationTimeout)
Probe(i) ==
    /\ At(i, "probe")
    /\ \E ok \in Outcomes("Probe") :
          LET p == [proc[i] EXCEPT !.rpcLog = Call(proc[i], "Probe")] IN
          Step(i, IF ok THEN [p EXCEPT !.pc = "getDriverName"] ELSE Die(p, 1, "Probe"))

\* ctrl.GetDriverName(grpcClient, *operationTimeout)
GetDriverName(i) ==
    /\ At(i, "getDriverName")
    /\ \E ok \in Outcomes("GetDriverName"), name \in world.driverNames :
          LET p == [proc[i] EXCEPT !.rpcLog = Call(proc[i], "GetDriverName")] IN
          Step(i, IF ok
                  THEN [p EXCEPT !.pc = "migration", !.provisionerName = name]
                  ELSE Die(p, 255, "GetDriverName"))

\* translator.IsMigratedCSIDriverByName / GetInTreeNameFromCSIName
IsMigratedCSIDriverByName(name) == name \in MigratedDrivers
GetInTreeNameFromCSIName(name) ==
    IF name \in MigratedDrivers THEN "kubernetes.io/gce-pd" ELSE ""

MigrationDetection(i) ==
    /\ At(i, "migration")
    /\ LET p == proc[i] IN
       IF IsMigratedCSIDriverByName(p.provisionerName)
       THEN \E ok \in Outcomes("GetInTreeNameFromCSIName") :
               Step(i, IF ok
                       THEN [p EXCEPT !.pc = "connectMigrated",
                                      !.supportsMigrationFromInTreePluginName =
                                          GetInTreeNameFromCSIName(p.provisionerName),
                                      !.metricsMigrated = TRUE]
                       ELSE Die(p, 255, "GetInTreeNameFromCSIName"))
       ELSE Step(i, [p EXCEPT !.pc = "getCapabilities"])

\* Variant of ConnectMigrated: the old connection is closed but stays in use.
ConnectMigratedKeepsOld(i) ==
    /\ At(i, "connectMigrated")
    /\ \E ok \in Outcomes("ConnectMigrated") :
          LET p == [proc[i] EXCEPT !.rpcLog = Append(@, [op |-> "Connect", conn |-> 2])] IN
          Step(i, IF ok
                  THEN [p EXCEPT !.pc = "probeMigrated",
                                 !.conns = <<[open |-> FALSE, migrated |-> FALSE],
                                             [open |-> TRUE, migrated |-> TRUE]>>,
                                 !.rpcLog = Append(@, [op |-> "Close", conn |-> p.grpcClient])]
                  ELSE Die(p, 1, "ConnectMigrated"))

\* A second connection carrying the migrated label; the first one is closed.
ConnectMigrated(i) ==
    /\ At(i, "connectMigrated")
    /\ \E ok \in Outcomes("ConnectMigrated") :
          LET p == [proc[i] EXCEPT !.rpcLog = Append(@, [op |-> "Connect", conn |-> 2])] IN
          Step(i, IF ok
                  THEN [p EXCEPT !.pc = "probeMigrated",
                                 !.conns = <<[open |-> FALSE, migrated |-> FALSE],
                                             [open |-> TRUE, migrated |-> TRUE]>>,
                                 !.rpcLog = Append(@, [op |-> "Close", conn |-> p.grpcClient]),
                                 !.grpcClient = 2]
                  ELSE Die(p, 1, "ConnectMigrated"))

ProbeMigrated(i) ==
    /\ At(i, "probeMigrated")
    /\ \E ok \in Outcomes("ProbeMigrated") :
          LET p == [proc[i] EXCEPT !.rpcLog = Call(proc[i], "Probe")] IN
          Step(i, IF ok THEN [p EXCEPT !.pc = "getCapabilities"] ELSE Die(p, 1, "ProbeMigrated"))

\* ctrl.GetDriverCapabilities(grpcClient, *operationTimeout)
GetDriverCapabilities(i) ==
    /\ At(i, "getCapabilities")
    /\ \E ok \in Outcomes("GetDriverCapabilities"), pc \in world.pluginCapabilities,
          cc \in world.controllerCapabilities :
          LET p == [proc[i] EXCEPT !.rpcLog = Call(proc[i], "GetDriverCapabilities")] IN
          Step(i, IF ok
                  THEN [p EXCEPT !.pc = "listers", !.pluginCapabilities = pc,
                                 !.controllerCapabilities = cc, !.capsKnown = TRUE]
                  ELSE Die(p, 255, "GetDriverCapabilities"))

\* ----------------------------------------------------- listers and caches
StorageClasses == "StorageClasses"
PersistentVolumeClaims == "PersistentVolumeClaims"
VolumeAttachments == "VolumeAttachments"
Nodes == "Nodes"
CSINodes == "CSINodes"
CSIStorageCapacities == "CSIStorageCapacities"

\* Variant of Listers: the VolumeAttachment lister is built unconditionally.
ListersAlwaysAttach(i) ==
    /\ At(i, "listers")
    /\ Step(i, [proc[i] EXCEPT !.pc = "nodeDeployment",
                               !.factory = {StorageClasses, PersistentVolumeClaims,
                                            VolumeAttachments},
                               !.vaLister = "live"])

\* scLister, claimLister, and vaLister if the driver can attach.
Listers(i) ==
    /\ At(i, "listers")
    /\ LET p == proc[i]
           va == PublishCap \in p.controllerCapabilities IN
       Step(i, [p EXCEPT !.pc = "nodeDeployment",
                         !.factory = {StorageClasses, PersistentVolumeClaims}
                                     \cup (IF va THEN {VolumeAttachments} ELSE {}),
                         !.vaLister = IF va THEN "live" ELSE "nil"])

\* nodeDeployment with the node info of the backend, in node-deployment mode.
NodeDeploymentSetup(i) ==
    /\ At(i, "nodeDeployment")
    /\ LET p == proc[i] IN
       IF enableNodeDeployment
       THEN \E ok \in Outcomes("GetNodeInfo"), segs \in world.segments :
               LET q == [p EXCEPT !.rpcLog = Call(p, "GetNodeInfo")] IN
               Step(i, IF ok
                       THEN [q EXCEPT !.pc = "topologyListers",
                                      !.nodeDeployment =
                                          Some([NodeName |-> p.node,
                                                NodeInfo |-> [NodeId |-> "node-id-1",
                                                              AccessibleTopology |-> segs]])]
                       ELSE Die(q, 255, "GetNodeInfo"))
       ELSE Step(i, [p EXCEPT !.pc = "topologyListers"])

SupportsTopology(pluginCapabilities) == TopologyCap \in pluginCapabilities

\* Variant of TopologyListers: the listers are built whatever the driver supports.
TopologyListersUngated(i) ==
    /\ At(i, "topologyListers")
    /\ LET p == proc[i]
           nd == Val(p.nodeDeployment) IN
       IF p.nodeDeployment # Nil
       THEN LET segs == nd.NodeInfo.AccessibleTopology
                keySet == IF segs = Nil THEN {} ELSE DOMAIN Val(segs) IN
            \E keys \in Orders(keySet) :
               Step(i, [p EXCEPT !.pc = "provisioner",
                                 !.csiNode =
                                     Some([Name |-> nd.NodeName,
                                           Drivers |-> <<[Name |-> p.provisionerName,
                                                          NodeID |-> nd.NodeInfo.NodeId,
                                                          TopologyKeys |-> keys]>>]),
                                 !.fakeNode = Some([Name |-> nd.NodeName,
                                                    Labels |-> segs]),
                                 !.stoppedFactory = {CSINodes, Nodes},
                                 !.csiNodeLister = "fake",
                                 !.nodeLister = "fake"])
       ELSE Step(i, [p EXCEPT !.pc = "provisioner",
                              !.factory = @ \cup {CSINodes, Nodes},
                              !.csiNodeLister = "live",
                              !.nodeLister = "live"])

\* Variant of TopologyListers: the synthetic CSINode is given no topology keys.
TopologyListersNoKeys(i) ==
    /\ At(i, "topologyListers")
    /\ LET p == proc[i]
           nd == Val(p.nodeDeployment) IN
       IF SupportsTopology(p.pluginCapabilities)
       THEN IF p.nodeDeployment # Nil
            THEN Step(i, [p EXCEPT !.pc = "provisioner",
                                   !.csiNode =
                                       Some([Name |-> nd.NodeName,
                                             Drivers |-> <<[Name |-> p.provisionerName,
                                                            NodeID |-> nd.NodeInfo.NodeId,
                                                            TopologyKeys |-> <<>>]>>]),
                                   !.fakeNode =
                                       Some([Name |-> nd.NodeName,
                                             Labels |-> nd.NodeInfo.AccessibleTopology]),
                                   !.stoppedFactory = {CSINodes, Nodes},
                                   !.csiNodeLister = "fake",
                                   !.nodeLister = "fake"])
            ELSE Step(i, [p EXCEPT !.pc = "provisioner",
                                   !.factory = @ \cup {CSINodes, Nodes},
                                   !.csiNodeLister = "live",
                                   !.nodeLister = "live"])
       ELSE Step(i, [p EXCEPT !.pc = "provisioner"])

\* nodeLister and csiNodeLister: absent, synthetic (never started) or live.
TopologyListers(i) ==
    /\ At(i, "topologyListers")
    /\ LET p == proc[i]
           nd == Val(p.nodeDeployment) IN
       IF SupportsTopology(p.pluginCapabilities)
       THEN IF p.nodeDeployment # Nil
            THEN LET segs == nd.NodeInfo.AccessibleTopology
                     keySet == IF segs = Nil THEN {} ELSE DOMAIN Val(segs) IN
                 \E keys \in Orders(keySet) :
                    Step(i, [p EXCEPT !.pc = "provisioner",
                                      !.csiNode =
                                          Some([Name |-> nd.NodeName,
                                                Drivers |-> <<[Name |-> p.provisionerName,
                                                               NodeID |-> nd.NodeInfo.NodeId,
                                                               TopologyKeys |-> keys]>>]),
                                      !.fakeNode = Some([Name |-> nd.NodeName,
                                                         Labels |-> segs]),
                                      !.stoppedFactory = {CSINodes, Nodes},
                                      !.csiNodeLister = "fake",
                                      !.nodeLister = "fake"])
            ELSE Step(i, [p EXCEPT !.pc = "provisioner",
                                   !.factory = @ \cup {CSINodes, Nodes},
                                   !.csiNodeLister = "live",
                                   !.nodeLister = "live"])
       ELSE Step(i, [p EXCEPT !.pc = "provisioner"])

\* workqueue.NewItemExponentialFailureRateLimiter(baseDelay, maxDelay): no
\* item has failed yet.
NewItemExponentialFailureRateLimiter(baseDelay, maxDelay) ==
    [baseDelay |-> baseDelay, maxDelay |-> maxDelay, failures |-> [k \in Keys |-> 0]]

\* Variant of NewRateLimiter: the two intervals are passed in the wrong order.
NewRateLimiterSwapped ==
    NewItemExponentialFailureRateLimiter(retryIntervalMax, retryIntervalStart)

\* The rate limiter main creates.
NewRateLimiter ==
    NewItemExponentialFailureRateLimiter(retryIntervalStart, retryIntervalMax)

\* rateLimiter, claimQueue, claimInformer, provisionerOptions, csiProvisioner.
\* The claims queue and the provisioning controller are given rateLimiter.
ProvisionerSetup(i) ==
    /\ At(i, "provisioner")
    /\ LET p == proc[i] IN
       Step(i, [p EXCEPT !.pc = "capacityEnv",
                         !.csiProvisioner = p.grpcClient,
                         !.threadiness = "worker-threads",
                         !.limiters = <<NewRateLimiter>>,
                         !.rateLimiter = 1,
                         !.limiterOf = ("claims" :> 1) @@ ("provision" :> 1),
                         !.queues = {"claims"},
                         !.factory = @ \cup {PersistentVolumeClaims},
                         !.additionalProvisionerNames =
                             IF p.supportsMigrationFromInTreePluginName # ""
                             THEN {p.supportsMigrationFromInTreePluginName} ELSE {}])

\* Variant of CapacityEnv: the namespace is not checked.
CapacityEnvUnchecked(i) ==
    /\ At(i, "capacityEnv")
    /\ LET p == proc[i] IN
       IF enableCapacity
       THEN Step(i, [p EXCEPT !.pc = "ownerLookup", !.namespace = Getenv("NAMESPACE")])
       ELSE Step(i, [p EXCEPT !.pc = "controllers"])

\* --------------------------------------------------- capacity publishing
\* NAMESPACE is required when capacity publishing is enabled.
CapacityEnv(i) ==
    /\ At(i, "capacityEnv")
    /\ LET p == proc[i] IN
       IF enableCapacity
       THEN LET q == [p EXCEPT !.namespace = Getenv("NAMESPACE")] IN
            Step(i, IF q.namespace = "" THEN Die(q, 255, "NAMESPACE")
                    ELSE [q EXCEPT !.pc = "ownerLookup"])
       ELSE Step(i, [p EXCEPT !.pc = "controllers"])

\* owner.Lookup: the controller reference `level` steps above the pod; it
\* fails when the chain of controller references is shorter than that.
Lookup(chain, level) ==
    IF level <= chain THEN [ok |-> TRUE, ref |-> Some([depth |-> level])]
    ELSE [ok |-> FALSE, ref |-> Nil]

\* Variant of OwnerLookup: the pod name is not checked before the lookup.
OwnerLookupUncheckedPod(i) ==
    /\ At(i, "ownerLookup")
    /\ LET p == proc[i] IN
       IF capacityOwnerrefLevel >= 0
       THEN \E ok \in Outcomes("Lookup"), chain \in world.ownerChain :
               LET r == Lookup(chain, capacityOwnerrefLevel)
                   q == [p EXCEPT !.podName = Getenv("POD_NAME"), !.lookups = @ + 1] IN
               Step(i, IF ok /\ r.ok
                       THEN [q EXCEPT !.pc = "topologyInformer", !.controller = r.ref]
                       ELSE Die(q, 255, "Lookup"))
       ELSE Step(i, [p EXCEPT !.pc = "topologyInformer"])

\* Variant of OwnerLookup: the owner is looked up whatever the level is.
OwnerLookupAlways(i) ==
    /\ At(i, "ownerLookup")
    /\ LET q == [proc[i] EXCEPT !.podName = Getenv("POD_NAME")] IN
       IF q.podName = ""
       THEN Step(i, Die(q, 255, "POD_NAME"))
       ELSE \E ok \in Outcomes("Lookup"), chain \in world.ownerChain :
               LET r == Lookup(chain, capacityOwnerrefLevel)
                   q2 == [q EXCEPT !.lookups = @ + 1] IN
               Step(i, IF ok /\ r.ok
                       THEN [q2 EXCEPT !.pc = "topologyInformer", !.controller = r.ref]
                       ELSE Die(q2, 255, "Lookup"))

\* The owner of the CSIStorageCapacity objects, unless the level is negative.
OwnerLookup(i) ==
    /\ At(i, "ownerLookup")
    /\ LET p == proc[i] IN
       IF capacityOwnerrefLevel >= 0
       THEN LET q == [p EXCEPT !.podName = Getenv("POD_NAME")] IN
               IF q.podName = ""
               THEN Step(i, Die(q, 255, "POD_NAME"))
               ELSE \E ok \in Outcomes("Lookup"), chain \in world.ownerChain :
                       LET r == Lookup(chain, capacityOwnerrefLevel)
                           q2 == [q EXCEPT !.lookups = @ + 1] IN
                       Step(i, IF ok /\ r.ok
                               THEN [q2 EXCEPT !.pc = "topologyInformer",
                                               !.controller = r.ref]
                               ELSE Die(q2, 255, "Lookup"))
       ELSE Step(i, [p EXCEPT !.pc = "topologyInformer"])

\* Variant of TopologyInformer: live node topology in every deployment mode.
TopologyInformerAlwaysLive(i) ==
    /\ At(i, "topologyInformer")
    /\ Step(i, [proc[i] EXCEPT !.pc = "capacityController",
                               !.topologyInformer = "live",
                               !.factory = @ \cup {Nodes, CSINodes},
                               !.queues = @ \cup {"csitopology"},
                               !.limiterOf = @ @@ ("csitopology" :> proc[i].rateLimiter),
                               !.topologyWorker = "Background"])

\* Variant of TopologyInformer: the fixed segment is built from the keys only
\* while the driver reports more than one, and the last key is left out.
TopologyInformerDropsKey(i) ==
    /\ At(i, "topologyInformer")
    /\ LET p == proc[i]
           nd == Val(p.nodeDeployment) IN
       IF p.nodeDeployment = Nil
       THEN Step(i, [p EXCEPT !.pc = "capacityController",
                              !.topologyInformer = "live",
                              !.factory = @ \cup {Nodes, CSINodes},
                              !.queues = @ \cup {"csitopology"},
                              !.limiterOf = @ @@ ("csitopology" :> p.rateLimiter),
                              !.topologyWorker = "Background"])
       ELSE LET segs == nd.NodeInfo.AccessibleTopology
                keySet == IF segs = Nil THEN {} ELSE DOMAIN Val(segs) IN
            \E keys \in Orders(keySet) :
               Step(i, [p EXCEPT !.pc = "capacityController",
                                 !.topologyInformer = "fixed",
                                 !.segment = [n \in 1..(Len(keys) - 1) |->
                                                [Key |-> keys[n], Value |-> Val(segs)[keys[n]]]],
                                 !.topologyWorker = "Background"])

\* topologyInformer: live node topology, or one fixed segment; its worker
\* goroutine is started at once on context.Background().
TopologyInformer(i) ==
    /\ At(i, "topologyInformer")
    /\ LET p == proc[i]
           nd == Val(p.nodeDeployment) IN
       IF p.nodeDeployment = Nil
       THEN Step(i, [p EXCEPT !.pc = "capacityController",
                              !.topologyInformer = "live",
                              !.factory = @ \cup {Nodes, CSINodes},
                              !.queues = @ \cup {"csitopology"},
                              !.limiterOf = @ @@ ("csitopology" :> p.rateLimiter),
                              !.topologyWorker = "Background"])
       ELSE LET segs == nd.NodeInfo.AccessibleTopology
                keySet == IF segs = Nil THEN {} ELSE DOMAIN Val(segs) IN
            \E keys \in Orders(keySet) :
               Step(i, [p EXCEPT !.pc = "capacityController",
                                 !.topologyInformer = "fixed",
                                 !.segment = [n \in DOMAIN keys |->
                                                [Key |-> keys[n], Value |-> Val(segs)[keys[n]]]],
                                 !.topologyWorker = "Background"])

\* factoryForNamespace and the capacity controller.
CapacityController(i) ==
    /\ At(i, "capacityController")
    /\ LET p == proc[i] IN
       Step(i, [p EXCEPT !.pc = "controllers",
                         !.factoryForNamespace = {CSIStorageCapacities},
                         !.factory = @ \cup {StorageClasses},
                         !.queues = @ \cup {"csistoragecapacity"},
                         !.limiterOf = @ @@ ("csistoragecapacity" :> p.rateLimiter),
                         !.capacityController =
                             Some([conn |-> p.grpcClient,
                                   owner |-> p.controller,
                                   namespace |-> p.namespace,
                                   managedByID |-> IF enableNodeDeployment
                                                   THEN <<"external-provisioner", p.node>>
                                                   ELSE <<"external-provisioner">>,
                                   topologyInformer |-> p.topologyInformer])])

\* NewCloningProtectionController returns nil unless the driver can clone.
NewCloningProtectionController(controllerCapabilities) ==
    IF CloneCap \in controllerCapabilities THEN "built" ELSE "nil"

\* provisionController and csiClaimController.
Controllers(i) ==
    /\ At(i, "controllers")
    /\ LET p == proc[i] IN
       Step(i, [p EXCEPT !.pc = "httpServer",
                         !.provisionController = "built",
                         !.csiClaimController =
                             NewCloningProtectionController(p.controllerCapabilities)])

\* Variant of HTTPServer: with leader election the server is left to the leader.
HTTPServerLeaderOnly(i) ==
    /\ At(i, "httpServer")
    /\ LET p == proc[i] IN
       Step(i, IF p.addr # "" /\ ~enableLeaderElection
               THEN [p EXCEPT !.pc = "execution", !.handlers = @ \cup {"metrics"},
                              !.httpServer = "starting"]
               ELSE [p EXCEPT !.pc = "execution"])

\* The HTTP server is started whether or not this instance is the leader.
HTTPServer(i) ==
    /\ At(i, "httpServer")
    /\ LET p == proc[i] IN
       Step(i, IF p.addr # ""
               THEN [p EXCEPT !.pc = "execution", !.handlers = @ \cup {"metrics"},
                              !.httpServer = "starting"]
               ELSE [p EXCEPT !.pc = "execution"])

\* Variant of Execution: the informers are started before the election.
ExecutionStartsInformers(i) ==
    /\ At(i, "execution")
    /\ LET p == proc[i] IN
       IF ~enableLeaderElection
       THEN Step(i, [p EXCEPT !.pc = "factoryStart", !.ctx = "TODO",
                              !.lifecycle = Append(@, "Standalone")])
       ELSE Step(i, [p EXCEPT !.pc = "awaitLeadership",
                              !.started = p.factory,
                              !.lifecycle = Append(@, "AwaitingLeadership")])

\* Variant of Execution: run is called directly whatever the flag says.
ExecutionIgnoresElection(i) ==
    /\ At(i, "execution")
    /\ Step(i, [proc[i] EXCEPT !.pc = "factoryStart", !.ctx = "TODO",
                               !.lifecycle = Append(@, "Standalone")])

\* Variant of Execution: the health check is never registered.
ExecutionNoHealthCheck(i) ==
    /\ At(i, "execution")
    /\ LET p == proc[i] IN
       IF ~enableLeaderElection
       THEN Step(i, [p EXCEPT !.pc = "factoryStart", !.ctx = "TODO",
                              !.lifecycle = Append(@, "Standalone")])
       ELSE \E ok \in Outcomes("NewForConfig") :
               Step(i, IF ok
                       THEN [p EXCEPT !.pc = "awaitLeadership",
                                      !.lifecycle = Append(@, "AwaitingLeadership")]
                       ELSE Die(p, 255, "NewForConfig"))

\* ------------------------------------------------ execution coordination
\* Without leader election run is called directly; with it, run is handed
\* to the election and called once the lock is held.
Execution(i) ==
    /\ At(i, "execution")
    /\ LET p == proc[i] IN
       IF ~enableLeaderElection
       THEN Step(i, [p EXCEPT !.pc = "factoryStart", !.ctx = "TODO",
                              !.lifecycle = Append(@, "Standalone")])
       ELSE \E ok \in Outcomes("NewForConfig") :
               Step(i, IF ok
                       THEN [p EXCEPT !.pc = "awaitLeadership",
                                      !.handlers = IF httpEndpoint # ""
                                                   THEN @ \cup {"healthz"} ELSE @,
                                      !.lifecycle = Append(@, "AwaitingLeadership")]
                       ELSE Die(p, 255, "NewForConfig"))

\* le.Run(): blocks until the lock is free, takes it and calls run(ctx).
AcquireLeadership(i) ==
    /\ At(i, "awaitLeadership")
    /\ lease = NoLeader
    /\ lease' = i
    /\ proc' = [proc EXCEPT ![i] = [@ EXCEPT !.pc = "factoryStart", !.ctx = "leader"]]
    /\ UNCHANGED flags

\* le.Run() returns an error.
LeaderElectionError(i) ==
    /\ At(i, "awaitLeadership")
    /\ FALSE \in Outcomes("Run")
    /\ Step(i, Die(proc[i], 255, "Run"))

RunPositions == {"factoryStart", "waitSync", "checkSync", "startCapacity",
                 "startClaim", "provisionRun", "provisionRunning"}
InRun(i) == Alive(i) /\ proc[i].pc \in RunPositions

\* The election cancels the context of run when the lock is lost.
LoseLeadership(i) ==
    /\ InRun(i)
    /\ proc[i].ctx = "leader"
    /\ ~proc[i].cancelled
    /\ Step(i, [proc[i] EXCEPT !.cancelled = TRUE])

\* ... and ends the process once it stopped leading.
StoppedLeading(i) ==
    /\ InRun(i)
    /\ proc[i].cancelled
    /\ Step(i, Die(proc[i], 255, "stopped leading"))

\* http.ListenAndServe in its goroutine: serves, or fails fatally.
ListenAndServe(i) ==
    /\ Alive(i)
    /\ proc[i].httpServer = "starting"
    /\ \E ok \in Outcomes("ListenAndServe") :
          Step(i, IF ok THEN [proc[i] EXCEPT !.httpServer = "serving"]
                  ELSE Die(proc[i], 255, "ListenAndServe"))

\* Variant of FactoryStart: the controllers are started without waiting for
\* the informers.
FactoryStartNoWait(i) ==
    /\ At(i, "factoryStart")
    /\ LET p == proc[i] IN
       Step(i, [p EXCEPT !.pc = "startCapacity",
                         !.started = p.factory,
                         !.startedForNamespace = p.factoryForNamespace,
                         !.cacheSyncResult = Some([c \in p.factory |-> TRUE]),
                         !.lifecycle = Append(Append(@, "CacheSyncing"), "Leading")])

\* ------------------------------------------------------- the run closure
\* factory.Start and factoryForNamespace.Start.
FactoryStart(i) ==
    /\ At(i, "factoryStart")
    /\ LET p == proc[i] IN
       Step(i, [p EXCEPT !.pc = "waitSync",
                         !.started = p.factory,
                         !.startedForNamespace = p.factoryForNamespace,
                         !.lifecycle = Append(@, "CacheSyncing")])

\* An informer of the namespace factory completes its initial sync.
SyncForNamespace(i) ==
    /\ InRun(i)
    /\ ~proc[i].cancelled
    /\ \E c \in proc[i].startedForNamespace \ proc[i].synced :
          Step(i, [proc[i] EXCEPT !.synced = @ \cup {c}])

\* factory.WaitForCacheSync: returns when every started informer of factory
\* has synced, or when ctx is cancelled, with the informers synced by then.
WaitForCacheSync(i) ==
    /\ At(i, "waitSync")
    /\ LET p == proc[i] IN
       \E done \in SUBSET p.started :
          /\ done = p.started \/ p.cancelled
          /\ Step(i, [p EXCEPT !.pc = "checkSync",
                               !.synced = @ \cup done,
                               !.cacheSyncResult = Some([c \in p.started |-> c \in done])])

\* Variant of CheckSync: the result of the wait is ignored.
CheckSyncNotFatal(i) ==
    /\ At(i, "checkSync")
    /\ Step(i, [proc[i] EXCEPT !.pc = "startCapacity",
                               !.lifecycle = Append(@, "Leading")])

\* Any informer that did not sync is fatal.
CheckSync(i) ==
    /\ At(i, "checkSync")
    /\ LET p == proc[i]
           result == Val(p.cacheSyncResult) IN
       Step(i, IF \E c \in DOMAIN result : ~result[c]
               THEN Die(p, 255, "Failed to sync Informers!")
               ELSE [p EXCEPT !.pc = "startCapacity",
                              !.lifecycle = Append(@, "Leading")])

\* Variant of StartCapacity: the provisioning controller is run first, and
\* its Run blocks.
StartCapacityAfterProvision(i) ==
    /\ At(i, "startCapacity")
    /\ Step(i, [proc[i] EXCEPT !.pc = "provisionRunning",
                               !.runInvoked = @ \cup {"provision"},
                               !.workers = @ @@ ("provision" :> proc[i].threadiness)])

\* go capacityController.Run(ctx, capacityThreads)
StartCapacity(i) ==
    /\ At(i, "startCapacity")
    /\ LET p == proc[i] IN
       Step(i, IF p.capacityController # Nil
               THEN [p EXCEPT !.pc = "startClaim",
                              !.runInvoked = @ \cup {"capacity"},
                              !.workers = @ @@ ("capacity" :> "capacity-threads")]
               ELSE [p EXCEPT !.pc = "startClaim"])

\* Variant of StartClaim: the controller is started only next to a capacity
\* controller.
StartClaimWithCapacityOnly(i) ==
    /\ At(i, "startClaim")
    /\ LET p == proc[i] IN
       Step(i, IF p.csiClaimController # "nil" /\ p.capacityController # Nil
               THEN [p EXCEPT !.pc = "provisionRun",
                              !.runInvoked = @ \cup {"claim"},
                              !.workers = @ @@ ("claim" :> "cloning-protection-threads")]
               ELSE [p EXCEPT !.pc = "provisionRun"])

\* go csiClaimController.Run(ctx, finalizerThreads)
StartClaim(i) ==
    /\ At(i, "startClaim")
    /\ LET p == proc[i] IN
       Step(i, IF p.csiClaimController # "nil"
               THEN [p EXCEPT !.pc = "provisionRun",
                              !.runInvoked = @ \cup {"claim"},
                              !.workers = @ @@ ("claim" :> "cloning-protection-threads")]
               ELSE [p EXCEPT !.pc = "provisionRun"])

\* provisionController.Run(ctx): blocks until ctx is cancelled.
ProvisionRun(i) ==
    /\ At(i, "provisionRun")
    /\ Step(i, [proc[i] EXCEPT !.pc = "provisionRunning",
                               !.runInvoked = @ \cup {"provision"},
                               !.workers = @ @@ ("provision" :> proc[i].threadiness)])

\* The segment the topology informer answers with when asked about a node:
\* the fixed segment, or the one the node's labels give.
SegmentFor(p, key) ==
    IF p.topologyInformer = "fixed" THEN p.segment ELSE NodeLabels[key]

\* The running capacity controller asks its topology informer about a node.
TopologyLookup(i) ==
    /\ Alive(i)
    /\ "capacity" \in proc[i].runInvoked
    /\ ~proc[i].cancelled
    /\ \E key \in NodeNames :
          Step(i, [proc[i] EXCEPT !.listed =
                       Some([key |-> key, segment |-> SegmentFor(proc[i], key)])])

\* ------------------------------------------------------- retries of items
\* The users of a rate limiter: the claims queue of the cloning protection
\* controller, the provisioning controller, and the queues of the topology
\* informer and of the capacity controller.
Consumers == {"claims", "provision", "csitopology", "csistoragecapacity"}

\* ItemExponentialFailureRateLimiter.When: baseDelay * 2^failures, at most
\* maxDelay.
When(limiter, key) ==
    LET exp == limiter.failures[key]
        backoff == limiter.baseDelay * 2^exp IN
    IF backoff > limiter.maxDelay THEN limiter.maxDelay ELSE backoff

\* The delay a consumer would be given for an item that fails now.
Backoff(p, consumer, key) == When(p.limiters[p.limiterOf[consumer]], key)

\* An item of a running controller fails and is put back with AddRateLimited:
\* the limiter the queue was built with returns the delay and counts the failure.
AddRateLimited(i, consumer, key) ==
    /\ At(i, "provisionRunning")
    /\ ~proc[i].cancelled
    /\ consumer \in DOMAIN proc[i].limiterOf
    /\ LET p == proc[i]
           id == p.limiterOf[consumer]
           limiter == p.limiters[id] IN
       /\ limiter.failures[key] < MaxFailures
       /\ Step(i, [p EXCEPT !.limiters[id].failures[key] = @ + 1,
                            !.last = Some([op |-> "When", consumer |-> consumer,
                                           limiter |-> id, key |-> key,
                                           delay |-> When(limiter, key)])])

\* An item succeeds: Forget drops its failures.
Forget(i, consumer, key) ==
    /\ At(i, "provisionRunning")
    /\ ~proc[i].cancelled
    /\ consumer \in DOMAIN proc[i].limiterOf
    /\ LET p == proc[i]
           id == p.limiterOf[consumer] IN
       Step(i, [p EXCEPT !.limiters[id].failures[key] = 0,
                         !.last = Some([op |-> "Forget", consumer |-> consumer,
                                        limiter |-> id, key |-> key, delay |-> 0])])

\* ---------------------------------------------------------- specification
Flags ==
    /\ enableLeaderElection \in BOOLEAN
    /\ enableCapacity \in BOOLEAN
    /\ enableNodeDeployment \in BOOLEAN
    /\ capacityOwnerrefLevel \in Levels
    /\ metricsAddress \in {"", ":8080"}
    /\ httpEndpoint \in {"", ":8081"}
    /\ retryIntervalStart = 1
    /\ retryIntervalMax = MaxInterval

Init ==
    /\ Flags
    /\ environ \in Environments
    /\ replicas = {1}
    /\ world = FullWorld
    /\ proc = [i \in Instances |-> InitProc]
    /\ lease = NoLeader

\* Redundant instances of one deployment racing on the same lock, against a
\* backend whose calls succeed.
ElectionWorld ==
    [faults |-> {"Run", "ListenAndServe"},
     driverNames |-> MigratedDrivers,
     pluginCapabilities |-> {{TopologyCap}},
     controllerCapabilities |-> {{CloneCap}},
     segments |-> {Nil},
     ownerChain |-> {MaxLevel}]

InitElection ==
    /\ enableLeaderElection = TRUE
    /\ enableCapacity = TRUE
    /\ enableNodeDeployment = FALSE
    /\ capacityOwnerrefLevel = 0
    /\ metricsAddress \in {"", ":8080"}
    /\ httpEndpoint \in {"", ":8081"}
    /\ metricsAddress = "" \/ httpEndpoint = ""
    /\ retryIntervalStart = 1
    /\ retryIntervalMax = MaxInterval
    /\ environ = [NODE_NAME |-> "", NAMESPACE |-> "kube-system",
                  POD_NAME |-> "csi-provisioner-0"]
    /\ replicas = Instances
    /\ world = ElectionWorld
    /\ proc = [i \in Instances |-> InitProc]
    /\ lease = NoLeader

Next ==
    \E i \in Instances :
        \/ CheckNodeName(i)
        \/ CheckEndpoints(i)
        \/ KubeSetup(i)
        \/ Connect(i)
        \/ Probe(i)
        \/ GetDriverName(i)
        \/ MigrationDetection(i)
        \/ ConnectMigrated(i)
        \/ ProbeMigrated(i)
        \/ GetDriverCapabilities(i)
        \/ Listers(i)
        \/ NodeDeploymentSetup(i)
        \/ TopologyListers(i)
        \/ ProvisionerSetup(i)
        \/ CapacityEnv(i)
        \/ OwnerLookup(i)
        \/ TopologyInformer(i)
        \/ CapacityController(i)
        \/ Controllers(i)
        \/ HTTPServer(i)
        \/ Execution(i)
        \/ AcquireLeadership(i)
        \/ LeaderElectionError(i)
        \/ LoseLeadership(i)
        \/ StoppedLeading(i)
        \/ ListenAndServe(i)
        \/ FactoryStart(i)
        \/ SyncForNamespace(i)
        \/ WaitForCacheSync(i)
        \/ CheckSync(i)
        \/ StartCapacity(i)
        \/ StartClaim(i)
        \/ ProvisionRun(i)
        \/ TopologyLookup(i)

\* One instance with capacity publishing in its steady state, for every pair
\* of retry intervals: its items fail and succeed.
RetryWorld ==
    [faults |-> {},
     driverNames |-> DriverNames \ MigratedDrivers,
     pluginCapabilities |-> {{}},
     controllerCapabilities |-> {{CloneCap}},
     segments |-> {Nil},
     ownerChain |-> {MaxLevel}]

InitRetry ==
    /\ enableLeaderElection = FALSE
    /\ enableCapacity = TRUE
    /\ enableNodeDeployment = FALSE
    /\ capacityOwnerrefLevel = 0 - 1
    /\ metricsAddress = ""
    /\ httpEndpoint = ""
    /\ retryIntervalStart \in 1..MaxInterval
    /\ retryIntervalMax \in 1..MaxInterval
    /\ environ = [NODE_NAME |-> "", NAMESPACE |-> "kube-system", POD_NAME |-> ""]
    /\ replicas = {1}
    /\ world = RetryWorld
    /\ proc = [i \in Instances |-> InitProc]
    /\ lease = NoLeader

NextRetry ==
    \E i \in Instances :
        \/ CheckNodeName(i)
        \/ CheckEndpoints(i)
        \/ KubeSetup(i)
        \/ Connect(i)
        \/ Probe(i)
        \/ GetDriverName(i)
        \/ MigrationDetection(i)
        \/ GetDriverCapabilities(i)
        \/ Listers(i)
        \/ NodeDeploymentSetup(i)
        \/ TopologyListers(i)
        \/ ProvisionerSetup(i)
        \/ CapacityEnv(i)
        \/ OwnerLookup(i)
        \/ TopologyInformer(i)
        \/ CapacityController(i)
        \/ Controllers(i)
        \/ HTTPServer(i)
        \/ Execution(i)
        \/ FactoryStart(i)
        \/ SyncForNamespace(i)
        \/ WaitForCacheSync(i)
        \/ CheckSync(i)
        \/ StartCapacity(i)
        \/ StartClaim(i)
        \/ ProvisionRun(i)
        \/ \E consumer \in Consumers, key \in Keys : AddRateLimited(i, consumer, key)
        \/ \E consumer \in Consumers, key \in Keys : Forget(i, consumer, key)

\* One instance against a backend whose calls succeed; main goes on running
\* once the informers have synced.
LiveWorld ==
    [faults |-> {"Run", "ListenAndServe"},
     driverNames |-> DriverNames,
     pluginCapabilities |-> {{TopologyCap}},
     controllerCapabilities |-> SUBSET {CloneCap},
     segments |-> {Nil, Some([k \in {"zone"} |-> "x"])},
     ownerChain |-> {MaxLevel}]

InitLive ==
    /\ enableLeaderElection \in BOOLEAN
    /\ enableCapacity \in BOOLEAN
    /\ enableNodeDeployment \in BOOLEAN
    /\ capacityOwnerrefLevel = 0 - 1
    /\ metricsAddress = ""
    /\ httpEndpoint \in {"", ":8081"}
    /\ retryIntervalStart = 1
    /\ retryIntervalMax = MaxInterval
    /\ environ = [NODE_NAME |-> "node-1", NAMESPACE |-> "kube-system", POD_NAME |-> ""]
    /\ replicas = {1}
    /\ world = LiveWorld
    /\ proc = [i \in Instances |-> InitProc]
    /\ lease = NoLeader

\* The goroutine of main is scheduled: the three statements that follow the
\* check of the sync result are executed.
Fairness ==
    \A i \in Instances :
        /\ WF_vars(StartCapacity(i))
        /\ WF_vars(StartClaim(i))
        /\ WF_vars(ProvisionRun(i))

Spec == Init /\ [][Next]_vars
SpecLive == InitLive /\ [][Next]_vars /\ Fairness
SpecRetry == InitRetry /\ [][NextRetry]_vars
SpecElection == InitElection /\ [][Next]_vars

\* ======================================================================
\* Properties
\* ======================================================================
Range(s) == {s[n] : n \in DOMAIN s}
NoDuplicates(s) == \A m, n \in DOMAIN s : s[m] = s[n] => m = n
Ops(p) == {p.rpcLog[n].op : n \in DOMAIN p.rpcLog}

\* The informers a controller reads through the listers and informers it was
\* built with (the synthetic stores of stoppedFactory are not informers that sync).
Dependencies(p, c) ==
    CASE c = "provision" ->
            {StorageClasses, PersistentVolumeClaims}
            \cup (IF p.vaLister = "live" THEN {VolumeAttachments} ELSE {})
            \cup (IF p.nodeLister = "live" THEN {Nodes} ELSE {})
            \cup (IF p.csiNodeLister = "live" THEN {CSINodes} ELSE {})
      [] c = "claim" -> {PersistentVolumeClaims}
      [] c = "capacity" ->
            {StorageClasses, CSIStorageCapacities}
            \cup (IF p.topologyInformer = "live" THEN {Nodes, CSINodes} ELSE {})

\* ---------------------------------------------------------------- C1
\* C1 as stated: no sub-controller's Run has been called unless every informer
\* it depends on, the namespace-scoped CSIStorageCapacity informer included,
\* has completed its initial sync.
C1_AllDependenciesSynced ==
    \A i \in replicas : Alive(i) =>
        \A c \in proc[i].runInvoked : Dependencies(proc[i], c) \subseteq proc[i].synced

\* C1 amended: when a sub-controller's Run is called, every informer of the
\* shared factory it depends on has completed its initial sync; the informer of
\* the namespace-scoped factory has been started, and may not have synced yet.
C1_FactoryDependenciesSynced ==
    \A i \in replicas : Alive(i) =>
        \A c \in proc[i].runInvoked :
            LET p == proc[i]
                deps == Dependencies(p, c) IN
            /\ deps \subseteq p.factory \cup p.factoryForNamespace
            /\ deps \cap p.factory \subseteq p.started \cap p.synced
            /\ deps \cap p.factoryForNamespace \subseteq p.startedForNamespace

\* The capacity controller runs on live topology while its own informer has
\* not synced.
C1_Witness ==
    \E i \in replicas :
        /\ Alive(i)
        /\ proc[i].runInvoked = {"capacity", "claim", "provision"}
        /\ proc[i].topologyInformer = "live"
        /\ {Nodes, CSINodes, StorageClasses} \subseteq proc[i].synced
        /\ CSIStorageCapacities \notin proc[i].synced

\* ---------------------------------------------------------------- C2
\* C2 as stated: no sub-controller Run and no worker goroutine is started
\* before run(ctx) has been entered (directly, or by the election once this
\* instance holds the lock).
C2_NothingStartsBeforeRun ==
    \A i \in replicas :
        (proc[i].runInvoked # {} \/ proc[i].topologyWorker # "none")
            => proc[i].ctx # "none"

\* ---------------------------------------------------------------- C3
\* C3: with leader election, at most one instance is inside run at any time
\* and it holds the lock; every other live instance has no informer started
\* and no controller running.
C3_SingleLeader ==
    enableLeaderElection =>
        /\ \A i, j \in replicas : InRun(i) /\ InRun(j) => i = j
        /\ \A i \in replicas :
              /\ InRun(i) => lease = i
              /\ Alive(i) /\ ~InRun(i) =>
                    /\ proc[i].runInvoked = {}
                    /\ proc[i].started = {}
                    /\ proc[i].ctx = "none"

\* One instance runs its controllers while another one waits for the lock.
C3_Witness ==
    \E i, j \in replicas :
        /\ i # j
        /\ InRun(i) /\ "provision" \in proc[i].runInvoked
        /\ At(j, "awaitLeadership")

BootstrapFatal == {"NODE_NAME", "Connect", "Probe", "GetDriverName",
                   "GetInTreeNameFromCSIName", "ConnectMigrated", "ProbeMigrated",
                   "GetDriverCapabilities", "GetNodeInfo", "NAMESPACE", "POD_NAME",
                   "Lookup"}
LastOp(p) == p.rpcLog[Len(p.rpcLog)].op
FailedCall(why) ==
    CASE why = "ConnectMigrated" -> "Connect"
      [] why = "ProbeMigrated" -> "Probe"
      [] OTHER -> why

BootstrapFailure(p) ==
    p.fatal \in BootstrapFatal =>
        /\ p.pc = "exited"
        /\ p.exitCode \in {1, 255}
        /\ p.lifecycle = <<"Bootstrapping", "ShuttingDown">>
        /\ p.ctx = "none"
        /\ p.runInvoked = {}
        /\ p.provisionController = "nil"
        /\ p.fatal \in Calls \ {"Lookup", "GetInTreeNameFromCSIName"} =>
              LastOp(p) = FailedCall(p.fatal)
        /\ p.fatal \in {"NAMESPACE", "POD_NAME"} => p.lookups = 0
        /\ p.fatal = "Lookup" => p.lookups = 1
        /\ p.fatal \in {"NAMESPACE", "POD_NAME", "Lookup"} =>
              p.capacityController = Nil /\ p.topologyWorker = "none"

\* C5: a bootstrap step that fails ends the process with a non-zero status:
\* no backend call is made twice, the failed call is the last one made, the
\* run function is never entered, and the ended process takes no further step.
C5_BootstrapFailureIsFinal ==
    /\ [](\A i \in replicas :
             /\ NoDuplicates(proc[i].rpcLog)
             /\ proc[i].lookups <= 1
             /\ BootstrapFailure(proc[i]))
    /\ [][\A i \in replicas : proc[i].pc = "exited" => proc'[i] = proc[i]]_vars

\* The capability query failed after the earlier calls succeeded.
C5_Witness ==
    \E i \in replicas :
        /\ proc[i].fatal = "GetDriverCapabilities"
        /\ Len(proc[i].rpcLog) >= 4

\* ---------------------------------------------------------------- C6
\* C6 as stated: when the process begins to wait for leadership, its informers
\* have been started and their initial sync has been waited for.
C6_SyncBeforeElection ==
    \A i \in replicas :
        "AwaitingLeadership" \in Range(proc[i].lifecycle)
            => "CacheSyncing" \in Range(proc[i].lifecycle)

Rank(state) ==
    CASE state = "Bootstrapping" -> 1
      [] state \in {"Standalone", "AwaitingLeadership"} -> 2
      [] state = "CacheSyncing" -> 3
      [] state = "Leading" -> 4
      [] state = "ShuttingDown" -> 5

\* C6 amended: the states are visited in the order Bootstrapping, then
\* Standalone or AwaitingLeadership, then CacheSyncing, then Leading, then
\* ShuttingDown: the informers are started and waited for inside run, that
\* is after the lock is held when leader election is enabled.
C6_LifecycleOrder ==
    \A i \in replicas :
        LET p == proc[i]
            l == p.lifecycle IN
        /\ l[1] = "Bootstrapping"
        /\ \A m, n \in DOMAIN l : m < n => Rank(l[m]) < Rank(l[n])
        /\ "Standalone" \in Range(l) => ~enableLeaderElection
        /\ "AwaitingLeadership" \in Range(l) => enableLeaderElection
        /\ "CacheSyncing" \in Range(l) => p.ctx # "none" /\ Len(l) >= 3
        /\ "Leading" \in Range(l) => "CacheSyncing" \in Range(l)
        /\ p.pc = "awaitLeadership" => p.started = {} /\ p.cacheSyncResult = Nil
        /\ p.started # {} =>
              /\ "CacheSyncing" \in Range(l)
              /\ enableLeaderElection => lease = i /\ p.ctx = "leader"
        /\ p.runInvoked # {} => "Leading" \in Range(l)
        /\ p.pc = "exited" <=> l[Len(l)] = "ShuttingDown"

\* With leader election the informers were started after the lock was taken.
C6_Witness ==
    \E i \in replicas :
        /\ proc[i].lifecycle =
              <<"Bootstrapping", "AwaitingLeadership", "CacheSyncing", "Leading">>
        /\ "provision" \in proc[i].runInvoked

\* ---------------------------------------------------------------- C7
\* C7 as stated: with capacity publishing, owner level 1 and POD_NAME unset,
\* the fatal error about POD_NAME comes before any call to the backend.
C7_FatalBeforeAnyCall ==
    \A i \in replicas :
        (/\ enableCapacity
         /\ capacityOwnerrefLevel = 1
         /\ Getenv("POD_NAME") = ""
         /\ proc[i].fatal = "POD_NAME") => proc[i].rpcLog = <<>>

\* C7 amended: with capacity publishing, an owner level >= 0 and POD_NAME
\* unset, bootstrap never gets past the POD_NAME check: no owner is looked up,
\* no capacity controller is built, no worker or controller is started; when the
\* check ends the process, Connect, Probe, GetDriverName and
\* GetDriverCapabilities have already been called.
C7_FatalAtPodNameCheck ==
    \A i \in replicas :
        LET p == proc[i] IN
        (enableCapacity /\ capacityOwnerrefLevel >= 0 /\ Getenv("POD_NAME") = "") =>
            /\ p.lookups = 0
            /\ p.controller = Nil
            /\ p.capacityController = Nil
            /\ p.provisionController = "nil"
            /\ p.topologyWorker = "none"
            /\ p.runInvoked = {}
            /\ p.ctx = "none"
            /\ p.fatal = "POD_NAME" =>
                  /\ p.exitCode = 255
                  /\ {"Connect", "Probe", "GetDriverName", "GetDriverCapabilities"}
                        \subseteq Ops(p)
                  /\ enableNodeDeployment => "GetNodeInfo" \in Ops(p)

\* The process ended at the POD_NAME check with owner level 1.
C7_Witness ==
    \E i \in replicas :
        /\ enableCapacity
        /\ capacityOwnerrefLevel = 1
        /\ proc[i].fatal = "POD_NAME"

\* ---------------------------------------------------------------- C8
Assembled(p) == p.provisionController = "built"

\* C8 as stated: the capacity controller is built exactly when capacity
\* publishing is enabled and NAMESPACE and POD_NAME are both set; a missing
\* value is fatal for every owner level.
C8_BothValuesRequired ==
    \A i \in replicas :
        LET p == proc[i] IN
        /\ p.capacityController # Nil =>
              enableCapacity /\ Getenv("NAMESPACE") # "" /\ Getenv("POD_NAME") # ""
        /\ Assembled(p) =>
              (p.capacityController # Nil <=>
                  enableCapacity /\ Getenv("NAMESPACE") # "" /\ Getenv("POD_NAME") # "")

\* C8 amended: once the controllers are assembled, the capacity controller
\* exists exactly when capacity publishing is enabled; with it enabled, a
\* missing NAMESPACE is fatal for every owner level and a missing POD_NAME is
\* fatal for every owner level >= 0 (with level -1 POD_NAME is not read and
\* the controller is built without it); with it disabled neither value is read.
C8_CapacityControllerBuilt ==
    \A i \in replicas :
        LET p == proc[i] IN
        /\ p.capacityController # Nil =>
              /\ enableCapacity
              /\ Getenv("NAMESPACE") # ""
              /\ capacityOwnerrefLevel >= 0 => Getenv("POD_NAME") # ""
        /\ Assembled(p) => (p.capacityController # Nil <=> enableCapacity)
        /\ (enableCapacity /\ Getenv("NAMESPACE") = "") =>
              ~Assembled(p) /\ p.fatal \in BootstrapFatal \cup {"", "endpoints", "KubeSetup"}
        /\ (enableCapacity /\ capacityOwnerrefLevel >= 0 /\ Getenv("POD_NAME") = "") =>
              ~Assembled(p) /\ p.fatal \in BootstrapFatal \cup {"", "endpoints", "KubeSetup"}
        /\ p.fatal \in {"NAMESPACE", "POD_NAME"} => p.exitCode = 255
        /\ ~enableCapacity =>
              /\ p.capacityController = Nil
              /\ p.fatal \notin {"NAMESPACE", "POD_NAME", "Lookup"}
              /\ p.namespace = "" /\ p.podName = ""

\* Owner level -1 and no POD_NAME: the capacity controller is built.
C8_Witness ==
    \E i \in replicas :
        /\ capacityOwnerrefLevel < 0
        /\ Getenv("POD_NAME") = ""
        /\ proc[i].capacityController # Nil
        /\ "capacity" \in proc[i].runInvoked

\* ---------------------------------------------------------------- C9
\* C9: with owner level -1 no owner is looked up, the capacity controller is
\* built with a nil owner and bootstrap goes on; with a level >= 0 the owner
\* is looked up exactly once, for this process's pod, and a failed lookup
\* ends the process without a capacity controller.
C9_OwnerResolution ==
    \A i \in replicas :
        LET p == proc[i] IN
        /\ p.lookups <= 1
        /\ capacityOwnerrefLevel < 0 =>
              /\ p.lookups = 0
              /\ p.controller = Nil
              /\ p.fatal \notin {"POD_NAME", "Lookup"}
        /\ p.lookups = 1 =>
              /\ enableCapacity /\ capacityOwnerrefLevel >= 0
              /\ p.podName = Getenv("POD_NAME") /\ p.podName # ""
              /\ p.namespace = Getenv("NAMESPACE") /\ p.namespace # ""
        /\ p.capacityController # Nil =>
              /\ Val(p.capacityController).owner = p.controller
              /\ capacityOwnerrefLevel < 0 => p.controller = Nil
              /\ capacityOwnerrefLevel >= 0 =>
                    /\ p.lookups = 1
                    /\ p.controller = Some([depth |-> capacityOwnerrefLevel])
        /\ p.fatal = "Lookup" =>
              /\ p.lookups = 1
              /\ p.exitCode = 255
              /\ p.controller = Nil
              /\ p.capacityController = Nil
              /\ p.runInvoked = {}

\* Level -1: the capacity controller runs with a nil owner and no lookup made.
C9_Witness ==
    \E i \in replicas :
        /\ capacityOwnerrefLevel < 0
        /\ "capacity" \in proc[i].runInvoked
        /\ proc[i].lookups = 0
        /\ Val(proc[i].capacityController).owner = Nil

\* --------------------------------------------------------------- C10
LiveTopology(p) ==
    \/ {Nodes, CSINodes} \cap (p.factory \cup p.started) # {}
    \/ p.nodeLister = "live" \/ p.csiNodeLister = "live"
    \/ p.topologyInformer = "live"
SyntheticTopology(p) ==
    \/ p.stoppedFactory # {}
    \/ p.csiNode # Nil \/ p.fakeNode # Nil
    \/ p.nodeLister = "fake" \/ p.csiNodeLister = "fake"
    \/ p.topologyInformer = "fixed"

\* C10: in node-deployment mode no Node or CSINode informer is requested from
\* the factory that gets started, whatever the driver supports and whatever is
\* enabled; otherwise no synthetic store and no fixed segment is built; the
\* two kinds of topology source are never both in use.
C10_TopologySourceByMode ==
    \A i \in replicas :
        LET p == proc[i] IN
        /\ enableNodeDeployment => ~LiveTopology(p)
        /\ ~enableNodeDeployment => ~SyntheticTopology(p) /\ p.segment = <<>>
        /\ ~(LiveTopology(p) /\ SyntheticTopology(p))
        /\ p.stoppedFactory \cap p.started = {}
        /\ p.started \subseteq p.factory

\* Node-deployment mode with topology and capacity: synthetic stores and the
\* fixed segment are in use while the controllers run.
C10_Witness ==
    \E i \in replicas :
        /\ enableNodeDeployment
        /\ proc[i].nodeLister = "fake"
        /\ proc[i].topologyInformer = "fixed"
        /\ proc[i].segment # <<>>
        /\ {"capacity", "provision"} \subseteq proc[i].runInvoked

\* --------------------------------------------------------------- C11
\* C11 as stated: when the driver does not support topology, no topology
\* source exists at all: the listers are nil, there is no topology informer,
\* and no Node or CSINode informer is requested or started, whatever else is
\* enabled.
C11_NoTopologyWithoutCapability ==
    \A i \in replicas :
        LET p == proc[i] IN
        (p.capsKnown /\ ~SupportsTopology(p.pluginCapabilities)) =>
            /\ p.nodeLister = "nil" /\ p.csiNodeLister = "nil"
            /\ p.topologyInformer = "nil"
            /\ {Nodes, CSINodes} \cap (p.factory \cup p.stoppedFactory \cup p.started) = {}

\* C11 amended: when the driver does not support topology, the node lister
\* and the CSINode lister handed to the provisioner are nil, no synthetic
\* Node or CSINode is built and bootstrap does not end for that reason; a Node
\* or CSINode informer exists only as part of the capacity controller's live
\* topology informer, which is built whenever capacity publishing is enabled
\* outside node-deployment mode (a fixed segment in node-deployment mode),
\* whatever the driver supports.
C11_ListersAbsentWithoutCapability ==
    \A i \in replicas :
        LET p == proc[i] IN
        (p.capsKnown /\ ~SupportsTopology(p.pluginCapabilities)) =>
            /\ p.nodeLister = "nil" /\ p.csiNodeLister = "nil"
            /\ p.csiNode = Nil /\ p.fakeNode = Nil
            /\ p.stoppedFactory = {}
            /\ {Nodes, CSINodes} \cap p.factory # {} <=> p.topologyInformer = "live"
            /\ p.topologyInformer = "live" => enableCapacity /\ ~enableNodeDeployment
            /\ p.topologyInformer = "fixed" => enableCapacity /\ enableNodeDeployment
            /\ p.capacityController # Nil => p.topologyInformer # "nil"
            /\ p.pc = "exited" =>
                  p.fatal \in {"GetNodeInfo", "NAMESPACE", "POD_NAME", "Lookup",
                               "NewForConfig", "Run", "stopped leading",
                               "ListenAndServe", "Failed to sync Informers!"}

\* A driver without topology support: the provisioner runs with nil listers
\* while the capacity controller runs on live node topology.
C11_Witness ==
    \E i \in replicas :
        /\ proc[i].capsKnown
        /\ ~SupportsTopology(proc[i].pluginCapabilities)
        /\ proc[i].nodeLister = "nil"
        /\ proc[i].topologyInformer = "live"
        /\ Nodes \in proc[i].synced
        /\ {"capacity", "provision"} \subseteq proc[i].runInvoked

\* --------------------------------------------------------------- C12
\* The segment map the backend reported for this node, empty if it reported none.
ReportedSegments(p) ==
    LET segs == Val(p.nodeDeployment).NodeInfo.AccessibleTopology IN
    IF segs = Nil THEN <<>> ELSE Val(segs)

\* C12: in node-deployment mode the fixed segment has exactly one entry per
\* key of the segment map the backend reported (no key twice, none missing,
\* each with the reported value; empty when the backend reported none), every
\* answer of the topology informer is that segment whatever node is asked
\* about, and once built the segment never changes.
C12_FixedSegment ==
    /\ [](\A i \in replicas :
             LET p == proc[i]
                 m == ReportedSegments(p) IN
             /\ p.topologyInformer = "fixed" =>
                   /\ enableNodeDeployment
                   /\ Len(p.segment) = Cardinality(DOMAIN m)
                   /\ {e.Key : e \in Range(p.segment)} = DOMAIN m
                   /\ \A e \in Range(p.segment) : e.Value = m[e.Key]
                   /\ \A a, b \in DOMAIN p.segment :
                         p.segment[a].Key = p.segment[b].Key => a = b
             /\ p.topologyInformer # "fixed" => p.segment = <<>>
             /\ (enableNodeDeployment /\ p.listed # Nil) =>
                   Val(p.listed).segment = p.segment)
    /\ [][\A i \in replicas :
             proc[i].topologyInformer = "fixed" =>
                 /\ proc'[i].topologyInformer = "fixed"
                 /\ proc'[i].segment = proc[i].segment]_vars

\* The backend reported two keys; the informer was asked about another node
\* and answered with the two-entry segment.
C12_Witness ==
    \E i \in replicas :
        /\ enableNodeDeployment
        /\ Len(proc[i].segment) = 2
        /\ proc[i].listed # Nil
        /\ Val(proc[i].listed).key # proc[i].node
        /\ Val(proc[i].listed).segment = proc[i].segment

\* --------------------------------------------------------------- C13
\* C13: once the listers are built, the VolumeAttachment lister exists
\* exactly when the driver declares PUBLISH_UNPUBLISH_VOLUME; without the
\* capability the lister is nil, no VolumeAttachment informer is requested,
\* started or synced, and no step ends the process because of that.
C13_AttachListerByCapability ==
    \A i \in replicas :
        LET p == proc[i]
            attach == PublishCap \in p.controllerCapabilities IN
        /\ p.factory = {} => p.vaLister = "nil"
        /\ p.factory # {} =>
              /\ p.capsKnown
              /\ p.vaLister = "live" <=> attach
              /\ VolumeAttachments \in p.factory <=> attach
        /\ ~attach =>
              /\ p.vaLister = "nil"
              /\ VolumeAttachments \notin p.factory \cup p.started \cup p.synced
              /\ p.cacheSyncResult # Nil =>
                    VolumeAttachments \notin DOMAIN Val(p.cacheSyncResult)
        /\ (attach /\ Alive(i) /\ p.runInvoked # {}) => VolumeAttachments \in p.synced
        /\ (~attach /\ p.pc = "nodeDeployment") => Alive(i)

\* A driver that cannot attach: the provisioner runs with a nil lister.
C13_Witness ==
    \E i \in replicas :
        /\ proc[i].capsKnown
        /\ PublishCap \notin proc[i].controllerCapabilities
        /\ proc[i].vaLister = "nil"
        /\ "provision" \in proc[i].runInvoked

\* --------------------------------------------------------------- C14
\* C14: with a diagnostics address configured, the HTTP server is started
\* before the election begins and is up in every later state of a live
\* process, leader or not: an instance waiting for the lock serves it; once it
\* serves it never stops while the process lives. Without an address there is
\* no server.
C14_ServesRegardlessOfLeadership ==
    /\ [](\A i \in replicas :
             LET p == proc[i] IN
             /\ (Alive(i) /\ p.addr # ""
                    /\ p.pc \in {"execution", "awaitLeadership"} \cup RunPositions) =>
                   /\ p.httpServer \in {"starting", "serving"}
                   /\ "metrics" \in p.handlers
             /\ p.httpServer # "off" =>
                   p.addr # "" /\ p.addr \in {metricsAddress, httpEndpoint}
             /\ p.fatal = "ListenAndServe" => p.exitCode = 255)
    /\ [][\A i \in replicas :
             (proc[i].httpServer = "serving" /\ proc'[i].exitCode = 0 - 1) =>
                 proc'[i].httpServer = "serving"]_vars

\* The loser of the election serves the endpoint while the leader runs.
C14_Witness ==
    \E i, j \in replicas :
        /\ i # j
        /\ lease = i /\ "provision" \in proc[i].runInvoked
        /\ At(j, "awaitLeadership")
        /\ proc[j].httpServer = "serving"

\* --------------------------------------------------------------- C15
\* The election has been set up: the process waits for the lock or leads.
ElectionActive(i) ==
    /\ enableLeaderElection
    /\ Alive(i)
    /\ proc[i].pc \in {"awaitLeadership"} \cup RunPositions

\* C15 as stated: whenever leader election is active and the HTTP server is
\* up, whichever of the two flags gave its address, the health check is
\* registered on it.
C15_HealthCheckOnEitherFlag ==
    \A i \in replicas :
        (ElectionActive(i) /\ proc[i].httpServer = "serving") =>
            "healthz" \in proc[i].handlers

\* C15 amended: whenever leader election is active and the HTTP server was
\* given its address by --http-endpoint, the health check is registered on
\* it; with --metrics-address the server only has the metrics path; without
\* leader election the health check is never registered.
C15_HealthCheckOnHttpEndpoint ==
    \A i \in replicas :
        LET p == proc[i] IN
        /\ (ElectionActive(i) /\ httpEndpoint # "") =>
              /\ p.addr = httpEndpoint
              /\ p.httpServer \in {"starting", "serving"}
              /\ p.handlers = {"metrics", "healthz"}
        /\ (ElectionActive(i) /\ httpEndpoint = "") =>
              p.handlers = IF metricsAddress # "" THEN {"metrics"} ELSE {}
        /\ "healthz" \in p.handlers => enableLeaderElection /\ httpEndpoint # ""
        /\ ~enableLeaderElection => "healthz" \notin p.handlers

\* Waiting for the lock with --http-endpoint: the health check is served.
C15_Witness ==
    \E i \in replicas :
        /\ At(i, "awaitLeadership")
        /\ httpEndpoint # ""
        /\ proc[i].httpServer = "serving"
        /\ "healthz" \in proc[i].handlers

\* --------------------------------------------------------------- C16
\* Positions of the log entries for op.
Entries(p, op) == {n \in DOMAIN p.rpcLog : p.rpcLog[n].op = op}

\* C16: for a migrated driver a second connection, carrying the migrated
\* label, is opened and probed; the first connection is closed only after the
\* second was opened; every call made after that (capabilities, node info)
\* and every controller built afterwards uses the second, open connection,
\* and the in-tree name is an additional provisioner name. For any other
\* driver a single connection is opened, never closed, and used throughout.
C16_MigratedConnection ==
    \A i \in replicas :
        LET p == proc[i]
            migrated == IsMigratedCSIDriverByName(p.provisionerName)
            closes == Entries(p, "Close")
            inUse == {p.grpcClient, p.csiProvisioner}
                         \cup (IF p.capacityController = Nil THEN {}
                               ELSE {Val(p.capacityController).conn}) IN
        /\ Len(p.conns) <= 2
        /\ Cardinality(Entries(p, "Connect")) <= 2
        /\ Cardinality(closes) <= 1
        /\ \A c \in closes :
              /\ p.rpcLog[c].conn = 1
              /\ c > 1 /\ p.rpcLog[c - 1] = [op |-> "Connect", conn |-> 2]
              /\ \A n \in DOMAIN p.rpcLog : n > c => p.rpcLog[n].conn = 2
              /\ Alive(i) /\ p.pc # "probeMigrated" =>
                    c < Len(p.rpcLog) /\ p.rpcLog[c + 1] = [op |-> "Probe", conn |-> 2]
        /\ \A n \in DOMAIN p.rpcLog :
              p.rpcLog[n].op \in {"GetDriverCapabilities", "GetNodeInfo"} =>
                  p.rpcLog[n].conn = IF migrated THEN 2 ELSE 1
        /\ \A c \in inUse \ {0} : c \in DOMAIN p.conns /\ p.conns[c].open
        /\ p.capsKnown =>
              /\ p.grpcClient = IF migrated THEN 2 ELSE 1
              /\ inUse \ {0} = {p.grpcClient}
              /\ Len(p.conns) = p.grpcClient
              /\ p.conns[p.grpcClient].migrated <=> migrated
              /\ closes # {} <=> migrated
              /\ Cardinality(Entries(p, "Connect")) = p.grpcClient
        /\ p.csiProvisioner # 0 =>
              p.additionalProvisionerNames =
                  IF migrated THEN {GetInTreeNameFromCSIName(p.provisionerName)} ELSE {}
        /\ p.additionalProvisionerNames \subseteq {"kubernetes.io/gce-pd"}

\* A migrated driver: the controllers run on the second connection.
C16_Witness ==
    \E i \in replicas :
        /\ IsMigratedCSIDriverByName(proc[i].provisionerName)
        /\ proc[i].csiProvisioner = 2
        /\ proc[i].conns[1].open = FALSE
        /\ proc[i].additionalProvisionerNames = {"kubernetes.io/gce-pd"}
        /\ "provision" \in proc[i].runInvoked

\* --------------------------------------------------------------- C17
\* C17 as stated: once run has been entered, every background worker the
\* program started is bound to the context handed to run, so that cancelling
\* that context reaches it: after the cancellation no worker is left on a
\* context of its own.
C17_RootCancellationReachesAll ==
    \A i \in replicas :
        (Alive(i) /\ proc[i].ctx # "none") =>
            /\ proc[i].topologyWorker \in {"none", proc[i].ctx}
            /\ proc[i].cancelled => proc[i].topologyWorker # "Background"

\* --------------------------------------------------------------- C18
\* C18 as stated: with both or with neither of --metrics-address and
\* --http-endpoint set, the process never gets past the check of the two
\* flags: it ends there with a fatal error.
C18_BothOrNeitherFatal ==
    \A i \in replicas :
        ((metricsAddress = "") = (httpEndpoint = "")) =>
            /\ proc[i].pc \in {"checkNode", "checkEndpoints", "exited"}
            /\ proc[i].fatal \in {"", "NODE_NAME", "endpoints"}

\* C18 amended: with both flags set the process ends at the check with status
\* 1, before any connection is opened and before any controller is built or
\* started; with neither set bootstrap goes on without an HTTP server; with
\* exactly one set bootstrap goes on and the server is given that address.
C18_BothFatalNeitherDisabled ==
    \A i \in replicas :
        LET p == proc[i]
            both == metricsAddress # "" /\ httpEndpoint # ""
            neither == metricsAddress = "" /\ httpEndpoint = ""
            passed == p.pc \notin {"checkNode", "checkEndpoints"}
                         /\ p.fatal \notin {"NODE_NAME", "endpoints"} IN
        /\ both =>
              /\ p.pc \in {"checkNode", "checkEndpoints", "exited"}
              /\ p.fatal \in {"", "NODE_NAME", "endpoints"}
              /\ p.rpcLog = <<>> /\ p.conns = <<>>
              /\ p.provisionController = "nil" /\ p.runInvoked = {}
              /\ p.httpServer = "off"
        /\ p.fatal = "endpoints" => both /\ p.exitCode = 1
        /\ neither =>
              /\ p.addr = ""
              /\ p.httpServer = "off" /\ p.handlers = {}
        /\ (~both /\ ~neither /\ passed) =>
              /\ p.addr # "" /\ p.addr \in {metricsAddress, httpEndpoint}
              /\ (Alive(i) /\ p.pc \in {"execution", "awaitLeadership"} \cup RunPositions) =>
                    p.httpServer # "off"

\* Neither flag set: the controllers run and there is no HTTP server.
C18_Witness ==
    \E i \in replicas :
        /\ metricsAddress = "" /\ httpEndpoint = ""
        /\ proc[i].httpServer = "off"
        /\ "provision" \in proc[i].runInvoked

\* --------------------------------------------------------------- C19
\* C19 as stated: an item that fails in one controller changes the delay of
\* that item in that controller only: the delay any other controller would
\* be given, for any key, and the delay of any other key stay what they were.
C19_FailureContained ==
    [][\A i \in replicas :
          (proc'[i].last # Nil /\ proc'[i].limiters # proc[i].limiters
               /\ Val(proc'[i].last).op = "When") =>
              LET a == Val(proc'[i].last) IN
              \A c \in DOMAIN proc[i].limiterOf, k \in Keys :
                  (c # a.consumer \/ k # a.key) =>
                      Backoff(proc'[i], c, k) = Backoff(proc[i], c, k)]_vars

\* --------------------------------------------------------------- C20
Min(a, b) == IF a < b THEN a ELSE b

\* C20: the n-th failure in a row of a key is given the delay
\* min(start * 2^(n-1), max), for the --retry-interval-start and
\* --retry-interval-max of the command line: it is never above max, the next
\* failure of the key is given twice the delay or max, and after a success
\* the key is back at min(start, max).
C20_ExponentialBackoff ==
    /\ [](\A i \in replicas :
             LET p == proc[i] IN
             /\ p.rateLimiter # 0 =>
                   /\ Len(p.limiters) = 1
                   /\ p.limiters[1].baseDelay = retryIntervalStart
                   /\ p.limiters[1].maxDelay = retryIntervalMax
             /\ p.last # Nil =>
                   LET a == Val(p.last)
                       n == p.limiters[a.limiter].failures[a.key] IN
                   /\ a.op = "When" =>
                         /\ n >= 1
                         /\ a.delay = Min(retryIntervalStart * 2^(n - 1), retryIntervalMax)
                         /\ a.delay <= retryIntervalMax
                   /\ a.op = "Forget" =>
                         /\ n = 0
                         /\ When(p.limiters[a.limiter], a.key) =
                               Min(retryIntervalStart, retryIntervalMax))
    /\ [][\A i \in replicas :
             (proc[i].last # Nil /\ proc'[i].last # Nil
                  /\ proc'[i].limiters # proc[i].limiters) =>
                 LET a == Val(proc[i].last)
                     b == Val(proc'[i].last) IN
                 (a.op = "When" /\ b.op = "When" /\ a.key = b.key) =>
                     b.delay = Min(2 * a.delay, retryIntervalMax)]_vars

\* The third failure in a row of a key is capped at max, below start * 4.
C20_Witness ==
    \E i \in replicas :
        /\ proc[i].last # Nil
        /\ Val(proc[i].last).op = "When"
        /\ proc[i].limiters[1].failures[Val(proc[i].last).key] = 3
        /\ Val(proc[i].last).delay = retryIntervalMax
        /\ retryIntervalStart * 2 < retryIntervalMax
        /\ retryIntervalMax < retryIntervalStart * 4

\* --------------------------------------------------------------- C21
\* The controllers main has built.
Built(p) ==
    (IF p.provisionController # "nil" THEN {"provision"} ELSE {})
    \cup (IF p.capacityController # Nil THEN {"capacity"} ELSE {})
    \cup (IF p.csiClaimController # "nil" THEN {"claim"} ELSE {})

\* The flag that sets the number of workers of a controller.
ThreadsFlag(c) ==
    CASE c = "provision" -> "worker-threads"
      [] c = "claim" -> "cloning-protection-threads"
      [] c = "capacity" -> "capacity-threads"

\* C21: once the sync result has been checked (Leading), every controller
\* that was built is eventually running, unless the process ends first; each
\* runs with the workers its own flag sets; when the provisioning controller's
\* blocking Run is entered the other built controllers have been started
\* already, and only controllers that were built are ever run.
C21_AllControllersRun ==
    /\ [](\A i \in replicas :
             LET p == proc[i] IN
             /\ p.runInvoked \subseteq Built(p)
             /\ DOMAIN p.workers = p.runInvoked
             /\ \A c \in p.runInvoked : p.workers[c] = ThreadsFlag(c)
             /\ "provision" \in p.runInvoked => p.runInvoked = Built(p)
             /\ p.runInvoked # {} => "Leading" \in Range(p.lifecycle))
    /\ \A i \in Instances :
          (Alive(i) /\ proc[i].pc = "startCapacity")
              ~> (~Alive(i) \/ (proc[i].pc = "provisionRunning"
                                   /\ proc[i].runInvoked = Built(proc[i])))

\* The three controllers run side by side, each with its own flag.
C21_Witness ==
    \E i \in replicas :
        /\ At(i, "provisionRunning")
        /\ proc[i].runInvoked = {"provision", "capacity", "claim"}
        /\ proc[i].workers["capacity"] = "capacity-threads"
        /\ proc[i].workers["claim"] = "cloning-protection-threads"
        /\ proc[i].workers["provision"] = "worker-threads"

\* --------------------------------------------------------------- C22
\* C22: once the controllers are assembled the cloning protection controller
\* exists exactly when the driver declares CLONE_VOLUME, and once the
\* statement that starts it has been passed it runs exactly then, whatever
\* the settings of capacity publishing, node deployment, leader election and
\* the other capabilities of the driver are.
C22_CloningProtectionByCapability ==
    \A i \in replicas :
        LET p == proc[i]
            clone == CloneCap \in p.controllerCapabilities IN
        /\ Assembled(p) => (p.csiClaimController = "built" <=> clone)
        /\ ~Assembled(p) => p.csiClaimController = "nil"
        /\ (Alive(i) /\ p.pc \in {"provisionRun", "provisionRunning"}) =>
              ("claim" \in p.runInvoked <=> clone)
        /\ "claim" \in p.runInvoked =>
              /\ clone
              /\ "Leading" \in Range(p.lifecycle)
              /\ "claims" \in p.queues

\* It runs with capacity publishing off, in node-deployment mode, with
\* leader election, for a driver without topology support.
C22_Witness ==
    \E i \in replicas :
        /\ ~enableCapacity /\ enableNodeDeployment /\ enableLeaderElection
        /\ proc[i].capsKnown
        /\ ~SupportsTopology(proc[i].pluginCapabilities)
        /\ proc[i].controllerCapabilities = {CloneCap}
        /\ "claim" \in proc[i].runInvoked

\* --------------------------------------------------------------- C23
\* C23: in node-deployment mode with a driver that supports topology, the
\* synthetic Node and CSINode both carry NODE_NAME; the CSINode has exactly
\* one driver, with the detected driver name and the node id the backend
\* reported; its topology keys are the keys of the Node's labels, each once;
\* the labels are the segment map the backend reported; both sit in stores of
\* the factory that is never started, and neither changes once built.
C23_SyntheticObjects ==
    /\ [](\A i \in replicas :
             LET p == proc[i]
                 nd == Val(p.nodeDeployment)
                 cn == Val(p.csiNode)
                 n == Val(p.fakeNode)
                 labels == IF n.Labels = Nil THEN <<>> ELSE Val(n.Labels) IN
             /\ p.csiNode # Nil <=> p.fakeNode # Nil
             /\ (enableNodeDeployment /\ SupportsTopology(p.pluginCapabilities)
                    /\ p.csiProvisioner # 0) => p.csiNode # Nil
             /\ p.csiNode # Nil =>
                   /\ enableNodeDeployment /\ SupportsTopology(p.pluginCapabilities)
                   /\ cn.Name = Getenv("NODE_NAME") /\ cn.Name # ""
                   /\ n.Name = cn.Name
                   /\ Len(cn.Drivers) = 1
                   /\ cn.Drivers[1].Name = p.provisionerName
                   /\ cn.Drivers[1].Name \in DriverNames
                   /\ cn.Drivers[1].NodeID = nd.NodeInfo.NodeId
                   /\ NoDuplicates(cn.Drivers[1].TopologyKeys)
                   /\ Range(cn.Drivers[1].TopologyKeys) = DOMAIN labels
                   /\ n.Labels = nd.NodeInfo.AccessibleTopology
                   /\ p.stoppedFactory = {CSINodes, Nodes}
                   /\ p.csiNodeLister = "fake" /\ p.nodeLister = "fake"
                   /\ {CSINodes, Nodes} \cap (p.factory \cup p.started) = {})
    /\ [][\A i \in replicas :
             proc[i].csiNode # Nil =>
                 /\ proc'[i].csiNode = proc[i].csiNode
                 /\ proc'[i].fakeNode = proc[i].fakeNode
                 /\ proc'[i].stoppedFactory = proc[i].stoppedFactory]_vars

\* The backend reported two segments; the controllers run on the two objects.
C23_Witness ==
    \E i \in replicas :
        /\ proc[i].csiNode # Nil
        /\ Len(Val(proc[i].csiNode).Drivers[1].TopologyKeys) = 2
        /\ Val(proc[i].fakeNode).Labels = Some([k \in SegmentKeys |-> "x"])
        /\ "provision" \in proc[i].runInvoked
====
